---------------------------- MODULE Spec2Model ----------------------------
(***************************************************************************)
(* Model of the structural assignability engine of the type checker:       *)
(* Analyzer::assign and Analyzer::assign_inner of                          *)
(* typescript/checker/src/analyzer/assign.rs.                              *)
(*                                                                         *)
(* A query is a pair of types (left, right), a source span and the         *)
(* analyzer's rule strict_null_checks.  The engine is a pure recursive     *)
(* function, modelled by the operator assign_inner; the single action      *)
(* Assign applies the public entry point to the query drawn by Init.  A    *)
(* second specification, SpecCalls, follows the recursion of a query call  *)
(* by call.                                                                *)
(*                                                                         *)
(* A result is Ok, Err(e) with e an error value, or Panic: the             *)
(* unimplemented!() macro of the source, which unwinds through every       *)
(* caller.                                                                 *)
(***************************************************************************)
EXTENDS Integers, Sequences, FiniteSets, TLC

VARIABLES left, right, span, strict, pc, result, frame, depth

vars == <<left, right, span, strict, pc, result, frame, depth>>

(***************************************************************************)
(* Bounds of the model.                                                    *)
(***************************************************************************)
\* the longest tuple, union, intersection and member list that is drawn
MaxArity == 2

(***************************************************************************)
(* The type algebra (the variants of Type that assign.rs matches on).      *)
(***************************************************************************)
Keyword(k) == [kind |-> "Keyword", kw |-> k]

StrLit(v, esc) == [lk |-> "Str", value |-> v, has_escape |-> esc]

NumLit(v) == [lk |-> "Number", value |-> v, has_escape |-> FALSE]

BoolLit(v) == [lk |-> "Bool", value |-> v, has_escape |-> FALSE]

Lit(l) == [kind |-> "Lit", lit |-> l]

Array(e) == [kind |-> "Array", elem_type |-> e]

Tuple(ts) == [kind |-> "Tuple", types |-> ts]

Union(ts) == [kind |-> "Union", types |-> ts, span |-> "ty"]

Intersection(ts) == [kind |-> "Intersection", types |-> ts]

TypeLit(ms) == [kind |-> "TypeLit", members |-> ms]

Interface(n, ms) == [kind |-> "Interface", name |-> n, body |-> ms]

Class(n, ms) == [kind |-> "Class", name |-> n, body |-> ms]

ClassInstance(c) == [kind |-> "ClassInstance", cls |-> c]

\* type_params is <<>> for None; params are never read by the engine
Function(tps, ret) == [kind |-> "Function", type_params |-> tps, ret_ty |-> ret]

Constructor(ret) == [kind |-> "Constructor", ret_ty |-> ret]

\* constraint is <<>> for None and <<c>> for Some(c)
Param(n, c) == [kind |-> "Param", name |-> n, constraint |-> c]

Enum(id, ms) == [kind |-> "Enum", id |-> id, members |-> ms]

EnumVariant(en, n) == [kind |-> "EnumVariant", enum_name |-> en, name |-> n]

This == [kind |-> "This", span |-> "ty"]

Predicate == [kind |-> "Simple", ts |-> "TsTypePredicate"]

Static(t) == [kind |-> "Static", ty |-> t]

\* members of object-like types; key and type_ann are <<>> for None
Ident(s) == [kk |-> "Ident", sym |-> s]

StrKey(s) == [kk |-> "Str", sym |-> s]

Property(k, t) == [ek |-> "Property", key |-> <<k>>, type_ann |-> t]

Method(k) == [ek |-> "Method", key |-> <<k>>, type_ann |-> <<>>]

IndexSig == [ek |-> "Index", key |-> <<>>, type_ann |-> <<>>]

CallSig == [ek |-> "Call", key |-> <<>>, type_ann |-> <<>>]

ConstructorSig == [ek |-> "Constructor", key |-> <<>>, type_ann |-> <<>>]

\* members of a class body
ClassConstructor == [ck |-> "Constructor", key |-> <<>>]

ClassProp(k) == [ck |-> "ClassProp", key |-> <<k>>]

\* an enum member; init is "none", "num" or "str" (the kind of its initializer)
EnumMember(n, i) == [name |-> n, init |-> i]

(***************************************************************************)
(* Results and errors.                                                     *)
(***************************************************************************)
Ok == [k |-> "Ok"]

Err(e) == [k |-> "Err", err |-> e]

Panic == [k |-> "Panic"]

\* no rule of a phase matched: the dispatch goes on
NoMatch == [k |-> "None"]

AssignFailed(sp, l, r, c) ==
    [kind |-> "AssignFailed", span |-> sp, left |-> l, right |-> r, cause |-> c]

UnionError(sp, es) == [kind |-> "UnionError", span |-> sp, errors |-> es]

IntersectionError(sp, e) == [kind |-> "IntersectionError", span |-> sp, error |-> e]

MissingFields(sp, fs) == [kind |-> "MissingFields", span |-> sp, fields |-> fs]

ConstructorRequired(sp, l, r) ==
    [kind |-> "ConstructorRequired", span |-> sp, lhs |-> l, rhs |-> r]

AssignedWrapperToPrimitive(sp) == [kind |-> "AssignedWrapperToPrimitive", span |-> sp]

CannotAssingToThis(sp) == [kind |-> "CannotAssingToThis", span |-> sp]

Errors(sp, es) == [kind |-> "Errors", span |-> sp, errors |-> es]

(***************************************************************************)
(* Helpers of the type model that the engine calls.                        *)
(***************************************************************************)
RECURSIVE normalize(_)
\* resolves the Static indirection
normalize(t) == IF t.kind = "Static" THEN normalize(t.ty) ELSE t

\* widens a literal type to its primitive keyword
generalize_lit(t) ==
    LET n == normalize(t) IN
    IF n.kind = "Lit"
    THEN Keyword(CASE n.lit.lk = "Bool" -> "boolean"
                   [] n.lit.lk = "Number" -> "number"
                   [] n.lit.lk = "Str" -> "string")
    ELSE t

is_keyword(t, k) == LET n == normalize(t) IN n.kind = "Keyword" /\ n.kw = k

\* an owned deep copy of the type: the same value
to_static(t) == t

\* the span of a type, for diagnostics
span_of(t) == IF t.kind \in {"Union", "This"} THEN t.span ELSE "ty"

RECURSIVE strip_span(_)
\* the type with every source span erased
strip_span(t) ==
    CASE t.kind = "Union" -> [t EXCEPT !.span = "", !.types = [i \in DOMAIN t.types |-> strip_span(t.types[i])]]
      [] t.kind = "This" -> [t EXCEPT !.span = ""]
      [] t.kind \in {"Tuple", "Intersection"} ->
            [t EXCEPT !.types = [i \in DOMAIN t.types |-> strip_span(t.types[i])]]
      [] t.kind = "Array" -> [t EXCEPT !.elem_type = strip_span(t.elem_type)]
      [] t.kind = "Static" -> [t EXCEPT !.ty = strip_span(t.ty)]
      [] t.kind \in {"Function", "Constructor"} -> [t EXCEPT !.ret_ty = strip_span(t.ret_ty)]
      [] t.kind = "Param" ->
            [t EXCEPT !.constraint = [i \in DOMAIN t.constraint |-> strip_span(t.constraint[i])]]
      [] t.kind = "TypeLit" ->
            [t EXCEPT !.members = [i \in DOMAIN t.members |->
                [t.members[i] EXCEPT !.type_ann =
                    [j \in DOMAIN t.members[i].type_ann |-> strip_span(t.members[i].type_ann[j])]]]]
      [] t.kind = "Interface" ->
            [t EXCEPT !.body = [i \in DOMAIN t.body |->
                [t.body[i] EXCEPT !.type_ann =
                    [j \in DOMAIN t.body[i].type_ann |-> strip_span(t.body[i].type_ann[j])]]]]
      [] OTHER -> t

\* equality of two types that ignores source spans
eq_ignore_span(a, b) == strip_span(a) = strip_span(b)

\* equality of two member keys that ignores source spans
key_eq_ignore_span(a, b) == a = b

\* equality of two literals that ignores source spans
lit_eq_ignore_span(a, b) == a = b

RECURSIVE strip_name(_)
\* the type with every name erased
strip_name(t) ==
    CASE t.kind \in {"Union", "Tuple", "Intersection"} ->
            [t EXCEPT !.types = [i \in DOMAIN t.types |-> strip_name(t.types[i])]]
      [] t.kind = "Array" -> [t EXCEPT !.elem_type = strip_name(t.elem_type)]
      [] t.kind = "Static" -> [t EXCEPT !.ty = strip_name(t.ty)]
      [] t.kind \in {"Function", "Constructor"} -> [t EXCEPT !.ret_ty = strip_name(t.ret_ty)]
      [] t.kind = "Param" ->
            [t EXCEPT !.name = "",
                      !.constraint = [i \in DOMAIN t.constraint |-> strip_name(t.constraint[i])]]
      [] t.kind = "Interface" -> [t EXCEPT !.name = ""]
      [] t.kind = "Class" -> [t EXCEPT !.name = ""]
      [] t.kind = "ClassInstance" -> [t EXCEPT !.cls = [t.cls EXCEPT !.name = ""]]
      [] OTHER -> t

\* equality of two types that ignores names and source spans
eq_ignore_name_and_span(a, b) == strip_name(strip_span(a)) = strip_name(strip_span(b))

\* equality of two members that ignores names and source spans
elem_eq_ignore_name_and_span(a, b) ==
    /\ a.ek = b.ek
    /\ Len(a.type_ann) = Len(b.type_ann)
    /\ \A i \in DOMAIN a.type_ann : eq_ignore_name_and_span(a.type_ann[i], b.type_ann[i])

(***************************************************************************)
(* The engine: assign_inner and the phases of its dispatch.                *)
(***************************************************************************)
RECURSIVE assign_inner(_, _, _)
RECURSIVE rules_on_rhs(_, _, _)
RECURSIVE rules_on_lhs(_, _, _)
RECURSIVE handle_type_lit(_, _, _, _, _, _, _)
RECURSIVE type_lit_member(_, _, _, _)
RECURSIVE array_from_tuple(_, _, _, _)
RECURSIVE tuple_from_tuple(_, _, _, _)

\* fail!(): the generic failure of the pair, without a cause
fail(to, rhs, sp) == Err(AssignFailed(sp, to_static(to), to_static(rhs), <<>>))

\* the (keyword, wrapper interface) pairs of the special cases
special_cases ==
    << [kwd |-> "boolean", interface |-> "Boolean"],
       [kwd |-> "string", interface |-> "String"],
       [kwd |-> "number", interface |-> "Number"] >>

\* special_case with the direction of the rule lost: the wrapper is accepted
\* by the primitive as well
special_case_symmetric(to, rhs, sp, i) ==
    LET kwd == special_cases[i].kwd
        interface == special_cases[i].interface
        tn == normalize(to)
        rn == normalize(generalize_lit(rhs))
    IN  IF tn.kind = "Keyword" /\ tn.kw = kwd
        THEN IF rn.kind = "Interface" /\ rn.name = interface THEN Ok ELSE NoMatch
        ELSE IF tn.kind = "Interface" /\ tn.name = interface
        THEN IF rn.kind = "Keyword" /\ rn.kw = kwd THEN Ok ELSE NoMatch
        ELSE NoMatch

\* one iteration of the loop over special_cases
special_case(to, rhs, sp, i) ==
    LET kwd == special_cases[i].kwd
        interface == special_cases[i].interface
        g == generalize_lit(rhs)
        tn == normalize(to)
        rn == normalize(g)
    IN  IF tn.kind = "Keyword" /\ tn.kw = kwd
        THEN IF rn.kind = "Interface" /\ rn.name = interface
             THEN Err(AssignedWrapperToPrimitive(sp))
             ELSE NoMatch
        ELSE IF tn.kind = "Interface" /\ tn.name = interface
        THEN IF rn.kind = "Keyword" /\ rn.kw = kwd THEN Ok ELSE NoMatch
        ELSE NoMatch

RECURSIVE special_cases_from(_, _, _, _)
\* the loop over special_cases, from its i-th pair on: the first hit returns
special_cases_from(to, rhs, sp, i) ==
    IF i > Len(special_cases) THEN NoMatch
    ELSE LET r == special_case(to, rhs, sp, i) IN
         IF r.k # "None" THEN r ELSE special_cases_from(to, rhs, sp, i + 1)

\* top_on_left without the arm for unknown
top_on_left_any_only(to) ==
    LET tn == normalize(to) IN
    tn.kind = "Keyword" /\ tn.kw = "any"

\* any or unknown on the left accepts everything
top_on_left(to) ==
    LET tn == normalize(to) IN
    tn.kind = "Keyword" /\ tn.kw \in {"any", "unknown"}

\* check_init of the Enum rule: flags is <<has_str, has_num>>
check_init(flags, init) == flags

RECURSIVE enum_flags(_, _, _)
\* the loop of the Enum rule over the members that have an initializer
enum_flags(members, i, flags) ==
    IF i > Len(members) THEN flags
    ELSE enum_flags(members, i + 1,
                    IF members[i].init # "none" THEN check_init(flags, members[i].init)
                    ELSE flags)

\* the errors of a sequence of results, in order
errors_of(rs) ==
    LET F[i \in 0..Len(rs)] ==
            IF i = 0 THEN <<>>
            ELSE IF rs[i].k = "Err" THEN Append(F[i - 1], rs[i].err) ELSE F[i - 1]
    IN  F[Len(rs)]

\* union_on_rhs that is content with one accepted arm
union_on_rhs_some(to, rn) ==
    LET rs == [i \in DOMAIN rn.types |-> assign_inner(to, rn.types[i], rn.span)]
        errors == errors_of(rs)
    IN  IF \E i \in DOMAIN rs : rs[i].k = "Panic" THEN Panic
        ELSE IF Len(errors) < Len(rs) THEN Ok
        ELSE Err(UnionError(rn.span, errors))

\* the rule for a Union on the right
union_on_rhs(to, rn) ==
    LET rs == [i \in DOMAIN rn.types |-> assign_inner(to, rn.types[i], rn.span)]
        errors == errors_of(rs)
    IN  IF \E i \in DOMAIN rs : rs[i].k = "Panic" THEN Panic
        ELSE IF errors = <<>> THEN Ok
        ELSE Err(UnionError(rn.span, errors))

\* unknown_on_rhs without the test for undefined on the left
unknown_on_rhs_any_only(to, rhs, sp) ==
    IF is_keyword(to, "any") THEN Ok ELSE fail(to, rhs, sp)

\* the rule for unknown on the right
unknown_on_rhs(to, rhs, sp) ==
    IF is_keyword(to, "any") \/ is_keyword(to, "undefined") THEN Ok
    ELSE fail(to, rhs, sp)

\* the rule for a type parameter on the right
param_on_rhs(to, rhs, sp) ==
    LET rn == normalize(rhs)
        tn == normalize(to)
    IN  IF tn.kind = "Param" /\ rn.name = tn.name THEN Ok
        ELSE IF rn.constraint # <<>> THEN assign_inner(to, rn.constraint[1], sp)
        ELSE IF tn.kind = "TypeLit" /\ tn.members = <<>> THEN Ok
        ELSE fail(to, rhs, sp)

\* the rule for an Enum on the right
enum_on_rhs(to, rhs, sp) ==
    LET e == normalize(rhs)
        flags == enum_flags(e.members, 1, <<FALSE, FALSE>>)
        has_str == flags[1]
        has_num == flags[2]
    IN  IF ~has_str /\ ~has_num THEN assign_inner(to, Keyword("number"), sp)
        ELSE IF ~has_num THEN assign_inner(to, Keyword("string"), sp)
        ELSE IF ~has_str THEN assign_inner(to, Keyword("number"), sp)
        ELSE Panic

\* rules_on_rhs whose first arm forgets null
rules_on_rhs_undefined_only(to, rhs, sp) ==
    LET rn == normalize(rhs) IN
    IF rn.kind = "Keyword" /\ rn.kw = "undefined" /\ ~strict THEN Ok
    ELSE IF rn.kind = "Union" THEN union_on_rhs(to, rn)
    ELSE IF rn.kind = "Keyword" /\ rn.kw = "any" THEN Ok
    ELSE IF rn.kind = "Keyword" /\ rn.kw = "unknown" THEN unknown_on_rhs(to, rhs, sp)
    ELSE IF rn.kind = "Param" THEN param_on_rhs(to, rhs, sp)
    ELSE IF rn.kind = "Enum" THEN enum_on_rhs(to, rhs, sp)
    ELSE NoMatch

\* the rules keyed on the right-hand side
rules_on_rhs(to, rhs, sp) ==
    LET rn == normalize(rhs) IN
    IF rn.kind = "Keyword" /\ rn.kw \in {"undefined", "null"} /\ ~strict THEN Ok
    ELSE IF rn.kind = "Union" THEN union_on_rhs(to, rn)
    ELSE IF rn.kind = "Keyword" /\ rn.kw = "any" THEN Ok
    ELSE IF rn.kind = "Keyword" /\ rn.kw = "unknown" THEN unknown_on_rhs(to, rhs, sp)
    ELSE IF rn.kind = "Param" THEN param_on_rhs(to, rhs, sp)
    ELSE IF rn.kind = "Enum" THEN enum_on_rhs(to, rhs, sp)
    ELSE NoMatch

\* type_lit_member that takes a Method matched by a Method as accepted
type_lit_member_method_accepted(m, rhs_members, j, sp) ==
    IF j > Len(rhs_members) THEN [k |-> "Missing"]
    ELSE LET rm == rhs_members[j] IN
         IF rm.key # <<>> /\ key_eq_ignore_span(m.key[1], rm.key[1])
         THEN IF m.ek = "Property" /\ rm.ek = "Property"
              THEN LET r == assign_inner(
                                IF m.type_ann # <<>> THEN m.type_ann[1] ELSE Keyword("any"),
                                IF rm.type_ann # <<>> THEN rm.type_ann[1] ELSE Keyword("any"),
                                sp)
                   IN  IF r.k = "Ok" THEN [k |-> "Continue"] ELSE [k |-> "Return", res |-> r]
              ELSE IF m.ek = "Method" /\ rm.ek = "Method"
              THEN [k |-> "Continue"]
              ELSE type_lit_member(m, rhs_members, j + 1, sp)
         ELSE type_lit_member(m, rhs_members, j + 1, sp)

\* the members of the right-hand side are searched for the key of member m
\* of the left-hand side, from the j-th on.  The step ends in
\*   Return(r): the whole macro returns r (an error, or it panics),
\*   Continue: the member is matched,  Missing: the member is missing.
type_lit_member(m, rhs_members, j, sp) ==
    IF j > Len(rhs_members) THEN [k |-> "Missing"]
    ELSE LET rm == rhs_members[j] IN
         IF rm.key # <<>> /\ key_eq_ignore_span(m.key[1], rm.key[1])
         THEN IF m.ek = "Property" /\ rm.ek = "Property"
              THEN LET r == assign_inner(
                                IF m.type_ann # <<>> THEN m.type_ann[1] ELSE Keyword("any"),
                                IF rm.type_ann # <<>> THEN rm.type_ann[1] ELSE Keyword("any"),
                                sp)
                   IN  IF r.k = "Ok" THEN [k |-> "Continue"] ELSE [k |-> "Return", res |-> r]
              ELSE IF m.ek = "Method" /\ rm.ek = "Method"
              THEN [k |-> "Return", res |-> Panic]
              ELSE type_lit_member(m, rhs_members, j + 1, sp)
         ELSE type_lit_member(m, rhs_members, j + 1, sp)

\* member m of the left-hand side against a TypeLit on the right
member_vs_type_lit(m, rhs_members, sp) ==
    IF m.key # <<>> THEN type_lit_member(m, rhs_members, 1, sp)
    ELSE IF m.ek = "Index" THEN [k |-> "Continue"]
    ELSE IF ~ \E j \in DOMAIN rhs_members : elem_eq_ignore_name_and_span(rhs_members[j], m)
    THEN [k |-> "Missing"]
    ELSE [k |-> "Nothing"]

\* member m of the left-hand side against a Class on the right
member_vs_class(m, body, to, rhs, sp) ==
    IF m.ek = "Constructor"
    THEN IF \E j \in DOMAIN body : body[j].ck = "Constructor"
         THEN [k |-> "Continue"]
         ELSE [k |-> "Error", err |-> ConstructorRequired(sp, span_of(to), span_of(rhs))]
    ELSE [k |-> "Return", res |-> Panic]

\* is_key_eq: both keys are identifiers, equal up to spans
is_key_eq(l, r) == l.kk = "Ident" /\ r.kk = "Ident" /\ key_eq_ignore_span(l, r)

\* member m of the left-hand side against a ClassInstance on the right
member_vs_class_instance(m, body) ==
    IF m.ek = "Property"
       /\ \E j \in DOMAIN body : body[j].ck = "ClassProp" /\ is_key_eq(m.key[1], body[j].key[1])
    THEN [k |-> "Continue"]
    ELSE [k |-> "Return", res |-> Panic]

\* the body of the loop of handle_type_lit! for member m
member_step(m, to, rhs, sp) ==
    LET rn == normalize(rhs) IN
    IF rn.kind = "TypeLit" THEN member_vs_type_lit(m, rn.members, sp)
    ELSE IF rn.kind = "Class" THEN member_vs_class(m, rn.body, to, rhs, sp)
    ELSE IF rn.kind = "ClassInstance" THEN member_vs_class_instance(m, rn.cls.body)
    ELSE IF rn.kind \in {"Tuple", "Array", "Lit"} THEN [k |-> "Return", res |-> fail(to, rhs, sp)]
    ELSE [k |-> "Nothing"]

\* handle_type_lit!: the loop over the members of the left-hand side from
\* the i-th on, with the errors and missing fields accumulated so far
handle_type_lit(members, i, to, rhs, sp, errors, missing_fields) ==
    IF i > Len(members)
    THEN LET errs == IF missing_fields # <<>>
                     THEN Append(errors, MissingFields(sp, missing_fields))
                     ELSE errors
         IN  IF errs = <<>> THEN Ok ELSE Err(Errors(sp, errs))
    ELSE LET m == members[i]
             step == member_step(m, to, rhs, sp)
         IN  IF step.k = "Return" THEN step.res
             ELSE IF step.k = "Missing"
             THEN handle_type_lit(members, i + 1, to, rhs, sp, errors, Append(missing_fields, m))
             ELSE IF step.k = "Error"
             THEN handle_type_lit(members, i + 1, to, rhs, sp, Append(errors, step.err), missing_fields)
             ELSE handle_type_lit(members, i + 1, to, rhs, sp, errors, missing_fields)

\* Array on the left, Tuple on the right: the loop over the elements from the i-th on
array_from_tuple(elem_type, types, i, sp) ==
    IF i > Len(types) THEN Ok
    ELSE LET r == assign_inner(elem_type, types[i], sp) IN
         IF r.k = "Ok" THEN array_from_tuple(elem_type, types, i + 1, sp) ELSE r

\* the rule for an Array on the left
array_on_lhs(to, rhs, sp) ==
    LET tn == normalize(to) IN
    IF rhs.kind = "Array"
    THEN LET r == assign_inner(tn.elem_type, rhs.elem_type, sp) IN
         IF r.k = "Err"
         THEN Err(AssignFailed(sp, to_static(to), to_static(rhs), <<r.err>>))
         ELSE r
    ELSE IF rhs.kind = "Tuple" THEN array_from_tuple(tn.elem_type, rhs.types, 1, sp)
    ELSE fail(to, rhs, sp)

\* union_on_lhs that stops at the first arm that accepts
union_on_lhs_short_circuit(to, rhs, sp) ==
    LET tn == normalize(to)
        vs == [i \in DOMAIN tn.types |-> assign_inner(tn.types[i], rhs, sp)]
        oks == {i \in DOMAIN vs : vs[i].k = "Ok"}
        panics == {i \in DOMAIN vs : vs[i].k = "Panic"}
    IN  IF oks # {} /\ \A p \in panics : \E i \in oks : i < p THEN Ok
        ELSE IF panics # {} THEN Panic
        ELSE Err(UnionError(sp, [i \in DOMAIN vs |-> vs[i].err]))

\* the rule for a Union on the left
union_on_lhs(to, rhs, sp) ==
    LET tn == normalize(to)
        vs == [i \in DOMAIN tn.types |-> assign_inner(tn.types[i], rhs, sp)]
    IN  IF \E i \in DOMAIN vs : vs[i].k = "Panic" THEN Panic
        ELSE IF \E i \in DOMAIN vs : vs[i].k = "Ok" THEN Ok
        ELSE Err(UnionError(sp, [i \in DOMAIN vs |-> vs[i].err]))

\* the rule for an Intersection on the left
intersection_on_lhs(to, rhs, sp) ==
    LET tn == normalize(to)
        vs == [i \in DOMAIN tn.types |-> assign_inner(tn.types[i], rhs, sp)]
        bad == {i \in DOMAIN vs : vs[i].k = "Err"}
    IN  IF \E i \in DOMAIN vs : vs[i].k = "Panic" THEN Panic
        ELSE IF bad # {}
        THEN Err(IntersectionError(sp, vs[CHOOSE i \in bad : \A j \in bad : i <= j].err))
        ELSE Ok

\* the rule for the keyword object on the left
object_on_lhs(rhs) ==
    IF \/ rhs.kind = "Keyword" /\ rhs.kw \in {"number", "string"}
       \/ rhs.kind \in {"Function", "Constructor", "Enum", "Class", "TypeLit"}
    THEN Ok
    ELSE NoMatch

\* the rule for every other keyword on the left
keyword_on_lhs(to, rhs, sp) ==
    LET kind == normalize(to).kw IN
    IF rhs.kind = "Keyword" /\ rhs.kw = kind THEN Ok
    ELSE IF kind = "string" /\ rhs.kind = "Lit" /\ rhs.lit.lk = "Str" THEN Ok
    ELSE IF kind = "number" /\ rhs.kind = "Lit" /\ rhs.lit.lk = "Number" THEN Ok
    ELSE IF kind = "boolean" /\ rhs.kind = "Lit" /\ rhs.lit.lk = "Bool" THEN Ok
    ELSE fail(to, rhs, sp)

\* the rule for an Enum on the left
enum_on_lhs(to, rhs, sp) ==
    LET e == normalize(to) IN
    IF rhs.kind = "EnumVariant" /\ rhs.enum_name = e.id THEN Ok
    ELSE Err(AssignFailed(sp, e, to_static(rhs), <<>>))

\* the rule for an EnumVariant on the left
enum_variant_on_lhs(to, rhs, sp) ==
    LET l == normalize(to) IN
    IF rhs.kind = "EnumVariant" /\ l.enum_name = rhs.enum_name /\ l.name = rhs.name THEN Ok
    ELSE fail(to, rhs, sp)

\* the rule for a literal on the left
lit_on_lhs(to, rhs, sp) ==
    LET lit == normalize(to).lit IN
    IF rhs.kind = "Lit"
    THEN IF lit_eq_ignore_span(lit, rhs.lit) THEN Ok
         ELSE IF lit.lk = "Str" /\ rhs.lit.lk = "Str" /\ lit.value = rhs.lit.value THEN Ok
         ELSE fail(to, rhs, sp)
    ELSE fail(to, rhs, sp)

\* the rule for a Function without type parameters on the left
function_on_lhs(to, rhs, sp) ==
    LET tn == normalize(to) IN
    IF rhs.kind = "Function" /\ rhs.type_params = <<>>
    THEN assign_inner(tn.ret_ty, rhs.ret_ty, sp)
    ELSE NoMatch

\* Tuple on both sides: the loop over the zipped elements from the i-th on
tuple_from_tuple(types, r_types, i, sp) ==
    IF i > Len(r_types) \/ i > Len(types) THEN Ok
    ELSE LET r == assign_inner(types[i], r_types[i], sp) IN
         IF r.k = "Ok" THEN tuple_from_tuple(types, r_types, i + 1, sp)
         ELSE IF r.k = "Panic" THEN Panic
         ELSE IF is_keyword(r_types[i], "undefined")
         THEN tuple_from_tuple(types, r_types, i + 1, sp)
         ELSE r

\* the rule for a Tuple on the left
tuple_on_lhs(to, rhs, sp) ==
    LET tn == normalize(to)
        rn == normalize(rhs)
    IN  IF rn.kind = "Tuple"
        THEN IF Len(tn.types) < Len(rn.types) THEN fail(to, rhs, sp)
             ELSE tuple_from_tuple(tn.types, rn.types, 1, sp)
        ELSE NoMatch

\* the rule for a type predicate on the left
predicate_on_lhs(rhs) ==
    LET rn == normalize(rhs) IN
    IF \/ rn.kind = "Keyword" /\ rn.kw = "boolean"
       \/ rn.kind = "Lit" /\ rn.lit.lk = "Bool"
    THEN Ok
    ELSE NoMatch

\* the rule for a Class on the left
class_on_lhs(to, rhs, sp) ==
    LET l_cls == normalize(to)
        rn == normalize(rhs)
    IN  IF rn.kind \in {"Class", "ClassInstance"}
        THEN IF eq_ignore_span(l_cls, IF rn.kind = "Class" THEN rn ELSE rn.cls) THEN Ok
             ELSE fail(to, rhs, sp)
        ELSE NoMatch

\* the rules keyed on the left-hand side
rules_on_lhs(to, rhs, sp) ==
    LET tn == normalize(to) IN
    IF tn.kind = "Param" /\ tn.constraint # <<>> THEN assign_inner(tn.constraint[1], rhs, sp)
    ELSE IF tn.kind = "Array" THEN array_on_lhs(to, rhs, sp)
    ELSE IF tn.kind = "Union" THEN union_on_lhs(to, rhs, sp)
    ELSE IF tn.kind = "Intersection" THEN intersection_on_lhs(to, rhs, sp)
    ELSE IF tn.kind = "Keyword" /\ tn.kw = "object" THEN object_on_lhs(rhs)
    ELSE IF tn.kind = "Keyword" THEN keyword_on_lhs(to, rhs, sp)
    ELSE IF tn.kind = "Enum" THEN enum_on_lhs(to, rhs, sp)
    ELSE IF tn.kind = "EnumVariant" THEN enum_variant_on_lhs(to, rhs, sp)
    ELSE IF tn.kind = "This" THEN Err(CannotAssingToThis(tn.span))
    ELSE IF tn.kind = "Interface" THEN handle_type_lit(tn.body, 1, to, rhs, sp, <<>>, <<>>)
    ELSE IF tn.kind = "TypeLit" THEN handle_type_lit(tn.members, 1, to, rhs, sp, <<>>, <<>>)
    ELSE IF tn.kind = "Lit" THEN lit_on_lhs(to, rhs, sp)
    ELSE IF tn.kind = "Function" /\ tn.type_params = <<>> THEN function_on_lhs(to, rhs, sp)
    ELSE IF tn.kind = "Tuple" THEN tuple_on_lhs(to, rhs, sp)
    ELSE IF tn.kind = "Simple" /\ tn.ts = "TsTypePredicate" THEN predicate_on_lhs(rhs)
    ELSE IF tn.kind = "Class" THEN class_on_lhs(to, rhs, sp)
    ELSE NoMatch

\* the fallback: equal up to names and spans, or not implemented
fallback(to, rhs) == IF eq_ignore_name_and_span(to, rhs) THEN Ok ELSE Panic

assign_inner(to, rhs, sp) ==
    LET a == special_cases_from(to, rhs, sp, 1) IN
    IF a.k # "None" THEN a
    ELSE IF top_on_left(to) THEN Ok
    ELSE LET c == rules_on_rhs(to, rhs, sp) IN
         IF c.k # "None" THEN c
         ELSE LET d == rules_on_lhs(to, rhs, sp) IN
              IF d.k # "None" THEN d
              ELSE fallback(to, rhs)

\* assign that returns the error of assign_inner as it is
assign_unwrapped(l, r, sp) == assign_inner(l, r, sp)

\* the public entry point: every error is rooted at an AssignFailed
assign(l, r, sp) ==
    LET res == assign_inner(l, r, sp) IN
    IF res.k = "Err" /\ res.err.kind # "AssignFailed"
    THEN Err(AssignFailed(sp, to_static(l), to_static(r), <<res.err>>))
    ELSE res

(***************************************************************************)
(* The call graph of assign_inner: the pairs on which one activation of    *)
(* assign_inner(to, rhs, span) calls itself, arm by arm.  A loop that      *)
(* leaves early (`?`, return, a panic that unwinds) does not make the      *)
(* calls of its later iterations.                                          *)
(***************************************************************************)
\* the pairs of ps on which a loop calls assign_inner, in order, as long as
\* the loop goes on after each result: a collect over an iterator ("collect")
\* goes on unless the call panics, a loop with `?` ("try") while the call
\* succeeds, the loop of the tuple rule ("tuple") while the call succeeds or
\* returns an error for a right element undefined
calls_in_order(ps, sp, loop) ==
    LET goes_on(p, r) ==
            IF loop = "collect" THEN r.k # "Panic"
            ELSE IF loop = "try" THEN r.k = "Ok"
            ELSE \/ r.k = "Ok"
                 \/ r.k = "Err" /\ is_keyword(p[2], "undefined")
    IN  {ps[i] : i \in {n \in DOMAIN ps :
                          \A j \in 1..(n - 1) :
                              goes_on(ps[j], assign_inner(ps[j][1], ps[j][2], sp))}}

\* calls_on_rhs whose Param arm calls again on the Param itself
calls_on_rhs_param_again(to, rhs, sp) ==
    LET rn == normalize(rhs)
        tn == normalize(to)
    IN  IF rn.kind = "Union"
        THEN calls_in_order([i \in DOMAIN rn.types |-> <<to, rn.types[i]>>], rn.span,
                            "collect")
        ELSE IF rn.kind = "Param"
        THEN IF tn.kind = "Param" /\ rn.name = tn.name THEN {}
             ELSE IF rn.constraint # <<>> THEN {<<to, rhs>>}
             ELSE {}
        ELSE IF rn.kind = "Enum"
        THEN LET flags == enum_flags(rn.members, 1, <<FALSE, FALSE>>) IN
             IF ~flags[1] /\ ~flags[2] THEN {<<to, Keyword("number")>>}
             ELSE IF ~flags[2] THEN {<<to, Keyword("string")>>}
             ELSE IF ~flags[1] THEN {<<to, Keyword("number")>>}
             ELSE {}
        ELSE {}

\* the calls of the rules keyed on the right-hand side: the arms of a Union,
\* the constraint of a Param, the keyword an Enum reduces to
calls_on_rhs(to, rhs, sp) ==
    LET rn == normalize(rhs)
        tn == normalize(to)
    IN  IF rn.kind = "Union"
        THEN calls_in_order([i \in DOMAIN rn.types |-> <<to, rn.types[i]>>], rn.span,
                            "collect")
        ELSE IF rn.kind = "Param"
        THEN IF tn.kind = "Param" /\ rn.name = tn.name THEN {}
             ELSE IF rn.constraint # <<>> THEN {<<to, rn.constraint[1]>>}
             ELSE {}
        ELSE IF rn.kind = "Enum"
        THEN LET flags == enum_flags(rn.members, 1, <<FALSE, FALSE>>) IN
             IF ~flags[1] /\ ~flags[2] THEN {<<to, Keyword("number")>>}
             ELSE IF ~flags[2] THEN {<<to, Keyword("string")>>}
             ELSE IF ~flags[1] THEN {<<to, Keyword("number")>>}
             ELSE {}
        ELSE {}

RECURSIVE type_lit_member_calls(_, _, _)
\* the call of handle_type_lit! for member m of the left-hand side: the types
\* of m and of the first Property of the right-hand side with an equal key,
\* searched from the j-th member on
type_lit_member_calls(m, rhs_members, j) ==
    IF j > Len(rhs_members) THEN {}
    ELSE LET rm == rhs_members[j] IN
         IF rm.key # <<>> /\ key_eq_ignore_span(m.key[1], rm.key[1])
         THEN IF m.ek = "Property" /\ rm.ek = "Property"
              THEN {<< IF m.type_ann # <<>> THEN m.type_ann[1] ELSE Keyword("any"),
                       IF rm.type_ann # <<>> THEN rm.type_ann[1] ELSE Keyword("any") >>}
              ELSE IF m.ek = "Method" /\ rm.ek = "Method"
              THEN {}
              ELSE type_lit_member_calls(m, rhs_members, j + 1)
         ELSE type_lit_member_calls(m, rhs_members, j + 1)

\* the calls of handle_type_lit!: those of every keyed member that the loop
\* reaches, with a TypeLit on the right
handle_type_lit_calls(members, to, rhs, sp) ==
    LET rn == normalize(rhs) IN
    IF rn.kind # "TypeLit" THEN {}
    ELSE UNION {type_lit_member_calls(members[i], rn.members, 1) :
                  i \in {n \in DOMAIN members :
                           /\ members[n].key # <<>>
                           /\ \A j \in 1..(n - 1) :
                                 member_step(members[j], to, rhs, sp).k # "Return"}}

\* the calls of the rules keyed on the left-hand side
calls_on_lhs(to, rhs, sp) ==
    LET tn == normalize(to)
        rn == normalize(rhs)
    IN  IF tn.kind = "Param" /\ tn.constraint # <<>> THEN {<<tn.constraint[1], rhs>>}
        ELSE IF tn.kind = "Array"
        THEN IF rhs.kind = "Array" THEN {<<tn.elem_type, rhs.elem_type>>}
             ELSE IF rhs.kind = "Tuple"
             THEN calls_in_order([i \in DOMAIN rhs.types |-> <<tn.elem_type, rhs.types[i]>>],
                                 sp, "try")
             ELSE {}
        ELSE IF tn.kind \in {"Union", "Intersection"}
        THEN calls_in_order([i \in DOMAIN tn.types |-> <<tn.types[i], rhs>>], sp,
                            "collect")
        ELSE IF tn.kind = "Interface" THEN handle_type_lit_calls(tn.body, to, rhs, sp)
        ELSE IF tn.kind = "TypeLit" THEN handle_type_lit_calls(tn.members, to, rhs, sp)
        ELSE IF tn.kind = "Function" /\ tn.type_params = <<>>
        THEN IF rhs.kind = "Function" /\ rhs.type_params = <<>>
             THEN {<<tn.ret_ty, rhs.ret_ty>>}
             ELSE {}
        ELSE IF tn.kind = "Tuple"
        THEN IF rn.kind = "Tuple" /\ Len(tn.types) >= Len(rn.types)
             THEN calls_in_order([i \in DOMAIN rn.types |-> <<tn.types[i], rn.types[i]>>],
                                 sp, "tuple")
             ELSE {}
        ELSE {}

\* the calls of one activation of assign_inner
calls(to, rhs, sp) ==
    IF special_cases_from(to, rhs, sp, 1).k # "None" THEN {}
    ELSE IF top_on_left(to) THEN {}
    ELSE IF rules_on_rhs(to, rhs, sp).k # "None" THEN calls_on_rhs(to, rhs, sp)
    ELSE calls_on_lhs(to, rhs, sp)

(***************************************************************************)
(* The bounded universe of types that queries are drawn from.              *)
(***************************************************************************)
\* the sequences over S of length 1..n
SeqsUpTo(S, n) == UNION {[1..k -> S] : k \in 1..n}

\* the elements of base at the indices I, in the order of base
SubSeq_at(base, I) ==
    [j \in 1..Cardinality(I) |->
        base[CHOOSE x \in I : Cardinality({y \in I : y < x}) = j - 1]]

\* the subsequences of base that have lo..hi elements
SubSeqs(base, lo, hi) ==
    {SubSeq_at(base, I) : I \in {J \in SUBSET DOMAIN base : Cardinality(J) \in lo..hi}}

Kinds ==
    {"any", "unknown", "string", "number", "boolean", "object", "void",
     "undefined", "null", "never", "symbol", "bigint"}

Keywords == {Keyword(k) : k \in Kinds}

Lits ==
    {Lit(StrLit("a", FALSE)), Lit(StrLit("a", TRUE)), Lit(StrLit("b", FALSE)),
     Lit(NumLit("1")), Lit(BoolLit("true"))}

Arrays == {Array(Keyword("number")), Array(Keyword("string"))}

TupleElems == {Keyword("number"), Keyword("string"), Keyword("undefined"), Keyword("object")}

Tuples == {Tuple(ts) : ts \in SeqsUpTo(TupleElems, MaxArity)}

Params ==
    {Param("T", <<>>), Param("U", <<>>), Param("S", <<Keyword("string")>>)}

UnionArms ==
    << Keyword("number"), Keyword("string"), Keyword("undefined"), Param("T", <<>>),
       Tuple(<<Keyword("number")>>) >>

Unions == {Union(ts) : ts \in SubSeqs(UnionArms, 2, MaxArity)}

MemberBase ==
    << Property(Ident("a"), <<Keyword("number")>>),
       Property(Ident("a"), <<Keyword("string")>>),
       Property(Ident("b"), <<Keyword("string")>>),
       Method(Ident("m")),
       IndexSig,
       ConstructorSig >>

MemberLists == SubSeqs(MemberBase, 0, MaxArity)

TypeLits == {TypeLit(ms) : ms \in MemberLists}

Interfaces ==
    {Interface("I", ms) : ms \in MemberLists}
        \cup {Interface(n, <<>>) : n \in {"Boolean", "String", "Number"}}

IntersectionParts ==
    << Param("T", <<>>), TypeLit(<<>>),
       TypeLit(<<Property(Ident("a"), <<Keyword("number")>>)>>),
       TypeLit(<<Property(Ident("b"), <<Keyword("string")>>)>>),
       Keyword("number") >>

Intersections == {Intersection(ts) : ts \in SubSeqs(IntersectionParts, 2, MaxArity)}

Classes ==
    {Class("C", <<ClassConstructor>>), Class("C", <<>>), Class("D", <<ClassProp(Ident("a"))>>)}

ClassInstances ==
    {ClassInstance(Class("C", <<ClassConstructor>>)),
     ClassInstance(Class("D", <<ClassProp(Ident("a"))>>))}

Functions ==
    {Function(<<>>, Keyword("number")), Function(<<>>, Keyword("string")),
     Function(<<"T">>, Keyword("number")), Constructor(Keyword("number"))}

Enums ==
    {Enum("E", <<EnumMember("A", "none"), EnumMember("B", "none")>>),
     Enum("EN", <<EnumMember("A", "num"), EnumMember("B", "none")>>),
     Enum("ES", <<EnumMember("A", "str"), EnumMember("B", "str")>>),
     Enum("EM", <<EnumMember("A", "str"), EnumMember("B", "num")>>)}

EnumVariants == {EnumVariant("E", "A"), EnumVariant("E", "B"), EnumVariant("ES", "A")}

Statics == {Static(Keyword("number")), Static(Interface("Boolean", <<>>))}

\* the types of the type algebra
Algebra ==
    Keywords \cup Lits \cup Arrays \cup Tuples \cup Params \cup Unions \cup TypeLits
        \cup Interfaces \cup Intersections \cup Classes \cup ClassInstances
        \cup Functions \cup Enums \cup EnumVariants \cup {This, Predicate}

Types == Algebra \cup Statics

(***************************************************************************)
(* The state machine: a query is drawn, then assign is applied to it.      *)
(***************************************************************************)
Init ==
    /\ left \in Types
    /\ right \in Types
    /\ span = "loc"
    /\ strict \in BOOLEAN
    /\ pc = "ready"
    /\ result = NoMatch
    /\ frame = [to |-> left, rhs |-> right]
    /\ depth = 0

Assign ==
    /\ pc = "ready"
    /\ result' = assign(left, right, span)
    /\ pc' = "done"
    /\ UNCHANGED <<left, right, span, strict, frame, depth>>

Next == Assign

Spec == Init /\ [][Next]_vars

(***************************************************************************)
(* The recursion of one query, followed along one chain of nested calls:   *)
(* frame is the pair of the innermost activation of assign_inner and depth *)
(* the number of activations below it.  Call enters one of the calls the   *)
(* innermost activation makes; Leaf is an activation that makes none and   *)
(* returns.                                                                *)
(***************************************************************************)
Call ==
    /\ pc = "ready"
    /\ \E c \in calls(frame.to, frame.rhs, span) :
          frame' = [to |-> c[1], rhs |-> c[2]]
    /\ depth' = depth + 1
    /\ UNCHANGED <<left, right, span, strict, pc, result>>

Leaf ==
    /\ pc = "ready"
    /\ calls(frame.to, frame.rhs, span) = {}
    /\ result' = assign_inner(frame.to, frame.rhs, span)
    /\ pc' = "done"
    /\ UNCHANGED <<left, right, span, strict, frame, depth>>

NextCalls == Call \/ Leaf

SpecCalls == Init /\ [][NextCalls]_vars /\ WF_vars(NextCalls)

(***************************************************************************)
(* Properties.                                                             *)
(***************************************************************************)
\* the query has been answered
Done == pc = "done"

\* the errors of the failing results of rs, in the order of rs
FailuresInOrder(rs) ==
    LET failed == SelectSeq(rs, LAMBDA r : r.k = "Err") IN
    [i \in DOMAIN failed |-> failed[i].err]

\* C1: an error returned by the public assign is rooted at an AssignFailed:
\* an AssignFailed of assign_inner is returned unchanged, every other error
\* is wrapped as AssignFailed{left, right, span, cause = [that error]}.
C1_RootIsAssignFailed ==
    Done /\ result.k = "Err" =>
        LET inner == assign_inner(left, right, span) IN
        /\ result.err.kind = "AssignFailed"
        /\ inner.k = "Err"
        /\ IF inner.err.kind = "AssignFailed"
           THEN result.err = inner.err
           ELSE result.err = AssignFailed(span, left, right, <<inner.err>>)

\* C1 witness: an error of another kind was wrapped with exactly one cause
C1_Witness ==
    /\ Done
    /\ result.k = "Err"
    /\ Len(result.err.cause) = 1
    /\ result.err.cause[1].kind = "CannotAssingToThis"
    /\ result.err.left = left

\* C2: any and unknown on the left accept every type, and any on the right
\* is accepted by every type, whatever strict_null_checks is.
C2_Top ==
    Done /\ (left \in {Keyword("any"), Keyword("unknown")} \/ right = Keyword("any"))
        => result = Ok

\* C2 witness: any was assigned to the this type, which rejects all else
C2_Witness == Done /\ left = This /\ right = Keyword("any") /\ result = Ok /\ strict

\* C3 as stated: unknown is accepted only by any and undefined
C3_Original ==
    Done /\ right = Keyword("unknown") =>
        (result = Ok <=> left \in {Keyword("any"), Keyword("undefined")})

\* C3 amended: unknown on the right is accepted exactly by any, unknown and
\* undefined on the left.
C3_UnknownAsymmetry ==
    Done /\ right = Keyword("unknown") =>
        (result = Ok <=> left \in {Keyword("any"), Keyword("unknown"), Keyword("undefined")})

\* C3 witness: unknown was assigned to unknown
C3_Witness == Done /\ left = Keyword("unknown") /\ right = Keyword("unknown") /\ result = Ok

\* C4: a primitive keyword is assignable to its wrapper interface, and the
\* wrapper interface assigned to the primitive fails with
\* AssignedWrapperToPrimitive as the single cause of the root, whatever
\* strict_null_checks is.
C4_WrapperAsymmetry ==
    Done =>
        \A i \in DOMAIN special_cases :
            LET kw == Keyword(special_cases[i].kwd)
                isW(t) == normalize(t).kind = "Interface"
                            /\ normalize(t).name = special_cases[i].interface
            IN  /\ isW(left) /\ right = kw => result = Ok
                /\ left = kw /\ isW(right) =>
                      result = Err(AssignFailed(span, left, right,
                                                <<AssignedWrapperToPrimitive(span)>>))

\* C4 witness: the wrapper String was assigned to the primitive string
C4_Witness ==
    /\ Done
    /\ left = Keyword("string")
    /\ right = Interface("String", <<>>)
    /\ result.k = "Err"
    /\ ~strict

\* C5: without strict_null_checks, null and undefined are accepted by
\* every type.
C5_NonStrictNull ==
    Done /\ ~strict /\ right \in {Keyword("null"), Keyword("undefined")} => result = Ok

\* C5 witness: null was assigned to the this type
C5_Witness == Done /\ ~strict /\ left = This /\ right = Keyword("null") /\ result = Ok

\* C6 as stated: with strict_null_checks, null is accepted only by any,
\* unknown and null, and undefined only by any, unknown and undefined
C6_StrictNull ==
    Done /\ strict /\ result = Ok =>
        /\ right = Keyword("null") =>
              left \in {Keyword("any"), Keyword("unknown"), Keyword("null")}
        /\ right = Keyword("undefined") =>
              left \in {Keyword("any"), Keyword("unknown"), Keyword("undefined")}

\* C7: a Union on the right is accepted iff every arm is accepted, and a
\* failure is a UnionError that holds the errors of the failing arms in the
\* order of the arms.
C7_UnionOnRight ==
    Done /\ normalize(right).kind = "Union" =>
        LET u == normalize(right)
            arms == [i \in DOMAIN u.types |-> assign(left, u.types[i], span)]
            inner == [i \in DOMAIN u.types |-> assign_inner(left, u.types[i], u.span)]
        IN  /\ result = Ok <=> \A i \in DOMAIN arms : arms[i] = Ok
            /\ result.k = "Err" =>
                  result.err = AssignFailed(span, left, right,
                                            <<UnionError(u.span, FailuresInOrder(inner))>>)

\* C7 witness: one arm of a two-armed union was rejected, the other accepted
C7_Witness ==
    /\ Done
    /\ right.kind = "Union"
    /\ Len(right.types) = 2
    /\ result.k = "Err"
    /\ result.err.cause[1].kind = "UnionError"
    /\ Len(result.err.cause[1].errors) = 1
    /\ assign(left, right.types[1], span) = Ok

\* C8 as stated: a Union on the left accepts R iff some arm accepts R
C8_Original ==
    Done /\ normalize(left).kind = "Union" =>
        LET u == normalize(left) IN
        result = Ok <=> \E i \in DOMAIN u.types : assign(u.types[i], right, span) = Ok

\* the rules keyed on the right-hand side that decide before the rule for a
\* Union on the left and do not reduce to it
DecidedOnRight(r) ==
    \/ normalize(r).kind \in {"Union", "Param"}
    \/ normalize(r) = Keyword("unknown")

\* C8 amended: for a Union on the left and R not a Union, unknown or a Param:
\* when some arm panics the query panics; otherwise R is accepted iff some
\* arm accepts it, and a failure is a UnionError with the errors of all arms.
C8_UnionOnLeft ==
    Done /\ normalize(left).kind = "Union" /\ ~DecidedOnRight(right) =>
        LET u == normalize(left)
            arms == [i \in DOMAIN u.types |-> assign_inner(u.types[i], right, span)]
        IN  IF \E i \in DOMAIN arms : arms[i] = Panic
            THEN result = Panic
            ELSE /\ result = Ok <=> \E i \in DOMAIN arms : arms[i] = Ok
                 /\ result # Ok =>
                       result = Err(AssignFailed(span, left, right,
                                   <<UnionError(span, [i \in DOMAIN arms |-> arms[i].err])>>))

\* C8 witness: one arm accepted R and another arm rejected it
C8_Witness ==
    /\ Done
    /\ left.kind = "Union"
    /\ ~DecidedOnRight(right)
    /\ result = Ok
    /\ strict
    /\ assign(left.types[1], right, span).k = "Err"
    /\ assign(left.types[2], right, span) = Ok

\* C9 as stated: an Intersection on the left accepts R iff every part
\* accepts R, and a failure of the intersection rule is an
\* IntersectionError with the error of the first failing part
C9_IntersectionOnLeft ==
    Done /\ normalize(left).kind = "Intersection" =>
        LET u == normalize(left)
            parts == [i \in DOMAIN u.types |-> assign(u.types[i], right, span)]
            inner == [i \in DOMAIN u.types |-> assign_inner(u.types[i], right, span)]
        IN  /\ result = Ok <=> \A i \in DOMAIN parts : parts[i] = Ok
            /\ result.k = "Err" /\ result.err.cause # <<>>
                    /\ result.err.cause[1].kind = "IntersectionError" =>
                  result.err.cause[1].error = FailuresInOrder(inner)[1]

\* C10 as stated: every type of the type algebra is assignable to itself
C10_Reflexivity == Done /\ left \in Algebra /\ right = left => result = Ok

\* C11 as stated: Tuple on both sides fails when the left is shorter;
\* otherwise it succeeds iff every position i of the right is accepted by
\* position i of the left or is the keyword undefined, whatever the left
\* position and strict_null_checks are
C11_TupleFromTuple ==
    Done /\ left.kind = "Tuple" /\ right.kind = "Tuple" =>
        IF Len(left.types) < Len(right.types)
        THEN result.k = "Err"
        ELSE result = Ok <=>
                \A i \in DOMAIN right.types :
                    \/ assign(left.types[i], right.types[i], span) = Ok
                    \/ right.types[i] = Keyword("undefined")

\* the elements of a sequence
Range(s) == {s[i] : i \in DOMAIN s}

\* C12 as stated: an Array on the left accepts a Tuple iff the element type
\* accepts every element of the tuple, and a rejected element makes the
\* result an AssignFailed for the Array/Tuple pair that holds the element's
\* failure in its cause list
C12_ArrayFromTuple ==
    Done /\ left.kind = "Array" /\ right.kind = "Tuple" =>
        LET rs == [i \in DOMAIN right.types |->
                      assign(left.elem_type, right.types[i], span)]
        IN  IF \A i \in DOMAIN rs : rs[i] = Ok
            THEN result = Ok
            ELSE /\ result.k = "Err"
                 /\ result.err.kind = "AssignFailed"
                 /\ result.err.left = to_static(left)
                 /\ result.err.right = to_static(right)
                 /\ \E i \in DOMAIN rs :
                        rs[i].k = "Err" /\ rs[i].err \in Range(result.err.cause)

\* the members of an Interface or a TypeLit
members_of(t) == IF t.kind = "Interface" THEN t.body ELSE t.members

\* the keyed members (Property, Method) of ms for which rms has no member
\* with an equal key and the same element kind, in the order of ms
Unmatched(ms, rms) ==
    SelectSeq(ms, LAMBDA m :
        /\ m.ek \in {"Property", "Method"}
        /\ ~ \E j \in DOMAIN rms :
               /\ rms[j].ek = m.ek
               /\ rms[j].key # <<>>
               /\ key_eq_ignore_span(m.key[1], rms[j].key[1]))

\* C13 as stated: with an Interface or TypeLit on the left and a TypeLit on
\* the right, a keyed member of the left that the right lacks makes the
\* assignment fail with an Errors aggregate that holds a MissingFields whose
\* keyed entries are exactly those members in order, even when another
\* member fails its property-type check
C13_MissingFields ==
    Done /\ left.kind \in {"Interface", "TypeLit"} /\ right.kind = "TypeLit"
         /\ Unmatched(members_of(left), right.members) # <<>> =>
        /\ result.k = "Err"
        /\ \E e \in Range(result.err.cause) :
              /\ e.kind = "Errors"
              /\ \E f \in Range(e.errors) :
                    /\ f.kind = "MissingFields"
                    /\ SelectSeq(f.fields, LAMBDA m : m.key # <<>>)
                           = Unmatched(members_of(left), right.members)

\* the kinds of initializer that the members of an Enum carry
InitKinds(e) == {e.members[i].init : i \in DOMAIN e.members} \ {"none"}

\* C14 as stated: an Enum on the right, for a left-hand side that no earlier
\* rule decides, has the outcome of number on the right when it has no
\* initializer or numeric ones only, the outcome of string on the right when
\* all its initializers are strings, and raises the internal-unimplemented
\* signal when it mixes the two
C14_EnumOnRight ==
    Done /\ right.kind = "Enum"
         /\ special_cases_from(left, right, span, 1) = NoMatch
         /\ ~top_on_left(left) =>
        IF InitKinds(right) \subseteq {"num"}
        THEN result.k = assign(left, Keyword("number"), span).k
        ELSE IF InitKinds(right) = {"str"}
        THEN result.k = assign(left, Keyword("string"), span).k
        ELSE result = Panic

\* C15 as stated: with an Interface or TypeLit on the left, an Interface on
\* the right has the outcome of the TypeLit of its body on the right, so a
\* keyed member of the left that the body lacks makes the assignment fail
C15_InterfaceOnRight ==
    Done /\ left.kind \in {"Interface", "TypeLit"} /\ right.kind = "Interface" =>
        /\ result.k = assign(left, TypeLit(right.body), span).k
        /\ Unmatched(members_of(left), right.body) # <<>> => result.k = "Err"

\* the declared type of a Property member, any when it has none
type_of(m) == IF m.type_ann # <<>> THEN m.type_ann[1] ELSE Keyword("any")

\* member i of ms is a Method and rms has a Method with an equal key
MethodPair(ms, rms, i) ==
    /\ ms[i].ek = "Method"
    /\ \E j \in DOMAIN rms :
          rms[j].ek = "Method" /\ key_eq_ignore_span(ms[i].key[1], rms[j].key[1])

\* a Property member of ms before the i-th whose first Property of rms with
\* an equal key has a type that the member's type rejects
EarlierRejected(ms, rms, i) ==
    \E j \in 1..(i - 1) :
        /\ ms[j].ek = "Property"
        /\ \E k \in DOMAIN rms :
              /\ rms[k].ek = "Property"
              /\ key_eq_ignore_span(ms[j].key[1], rms[k].key[1])
              /\ \A n \in 1..(k - 1) :
                    ~ (rms[n].ek = "Property"
                       /\ key_eq_ignore_span(ms[j].key[1], rms[n].key[1]))
              /\ assign_inner(type_of(ms[j]), type_of(rms[k]), span).k = "Err"

\* C16 as stated: with a TypeLit on the right, a left-hand side all of whose
\* members are Methods that the right matches by key with a Method is
\* accepted
C16_Original ==
    Done /\ left.kind \in {"Interface", "TypeLit"} /\ right.kind = "TypeLit"
         /\ members_of(left) # <<>>
         /\ (\A i \in DOMAIN members_of(left) :
                MethodPair(members_of(left), right.members, i)) =>
        result = Ok

\* C16: with a TypeLit on the right, a Method member of the left-hand side
\* that the right matches by key with a Method is never accepted: the query
\* raises the internal-unimplemented signal, unless an earlier Property member
\* of the left has already returned the error of its property-type check
C16_MethodPairUnimplemented ==
    Done /\ left.kind \in {"Interface", "TypeLit"} /\ right.kind = "TypeLit" =>
        \A i \in DOMAIN members_of(left) :
            MethodPair(members_of(left), right.members, i) =>
                /\ result # Ok
                /\ ~EarlierRejected(members_of(left), right.members, i) => result = Panic
                /\ EarlierRejected(members_of(left), right.members, i) => result.k = "Err"

\* the query TypeLit{m()} <- TypeLit{m()} has been answered
C16_Witness ==
    /\ Done
    /\ left.kind = "TypeLit"
    /\ right = left
    /\ Len(left.members) = 1
    /\ MethodPair(left.members, right.members, 1)
    /\ result = Panic

\* the sum of the numbers of a sequence
Sum(ns) ==
    LET F[i \in 0..Len(ns)] == IF i = 0 THEN 0 ELSE F[i - 1] + ns[i]
    IN  F[Len(ns)]

RECURSIVE size(_)
\* the size of a type: the number of its nodes, an Enum counted with one
\* node more than its members so that it is larger than a keyword
size(t) ==
    IF t.kind = "Array" THEN 1 + size(t.elem_type)
    ELSE IF t.kind \in {"Tuple", "Union", "Intersection"}
    THEN 1 + Sum([i \in DOMAIN t.types |-> size(t.types[i])])
    ELSE IF t.kind \in {"TypeLit", "Interface"}
    THEN 1 + Sum([i \in DOMAIN members_of(t) |->
                     IF members_of(t)[i].type_ann # <<>>
                     THEN 1 + size(members_of(t)[i].type_ann[1])
                     ELSE 2])
    ELSE IF t.kind \in {"Function", "Constructor"} THEN 1 + size(t.ret_ty)
    ELSE IF t.kind = "Param"
    THEN IF t.constraint # <<>> THEN 1 + size(t.constraint[1]) ELSE 1
    ELSE IF t.kind = "Enum" THEN 2 + Len(t.members)
    ELSE IF t.kind = "Static" THEN 1 + size(t.ty)
    ELSE 1

\* the measure of a pair of types
Measure(l, r) == size(l) + size(r)

\* every chain of nested calls ends in an activation that returns
Terminates == <>Done

\* C17: every recursive call of assign_inner is made on a pair strictly
\* smaller under the measure (the sum of the sizes of the two types), and
\* the depth of the recursion plus the measure of the innermost pair never
\* exceeds the measure of the query, so the depth is bounded by the size of
\* the input types and the recursion ends
C17_Termination ==
    /\ [][depth' = depth + 1 =>
             Measure(frame'.to, frame'.rhs) < Measure(frame.to, frame.rhs)]_vars
    /\ [](depth + Measure(frame.to, frame.rhs) <= Measure(left, right))

\* the reduction of a Param on the left to its constraint was entered below
\* the reduction of an Enum on the right to the keyword number
C17_Witness ==
    /\ depth = 2
    /\ left.kind = "Param"
    /\ right.kind = "Enum"
    /\ frame.to = left.constraint[1]
    /\ frame.rhs = Keyword("number")

=============================================================================
